---- MODULE Spec2Model ----
(***************************************************************************)
(* Model of three langflow adapter components:                             *)
(*   CassandraVectorStoreComponent     (vectorstores/Cassandra.py)         *)
(*   ElasticsearchVectorStoreComponent (vectorstores/Elasticsearch.py)     *)
(*   InfinityEmbeddingsComponent       (embeddings/InfinityEmbeddings.py)  *)
(* One component instance lives for one flow execution; the host calls its *)
(* output methods.  The wrapped libraries (cassio, langchain_community)    *)
(* are the environment: every underlying call either succeeds or raises.   *)
(* Python strings that the code inspects are sequences of characters.      *)
(***************************************************************************)
EXTENDS Integers, Sequences, FiniteSets, TLC

VARIABLES
    self,         \* the component instance: its bound input attributes
    status,       \* the component's status attribute
    method,       \* the output method the host invoked last ("" before any)
    calls,        \* underlying calls made during the last invocation, in order
    result,       \* what the last invocation gave the caller
    nCalls,       \* output-method invocations so far on this instance
    initCount,    \* executions of cassio.init so far
    ingestCount,  \* executions of a bulk-load constructor (from_documents) so far
    initFailures  \* invocations in which the cassio import or cassio.init raised

vars == <<self, status, method, calls, result, nCalls, initCount, ingestCount, initFailures>>

(***************************** bounds **************************************)
MaxCalls == 2

(************************** Python values **********************************)
\* characters str.strip() removes (those the model's queries use)
Whitespace == {" ", "\t", "\n"}

NoneValue == [type |-> "NoneType", s |-> <<>>, n |-> 0]
StrValue(chars) == [type |-> "str", s |-> chars, n |-> 0]
IntValue(i) == [type |-> "int", s |-> <<>>, n |-> i]

\* Python truthiness of the values a query attribute may hold
Truthy(v) ==
    CASE v.type = "str" -> Len(v.s) > 0
      [] v.type = "int" -> v.n # 0
      [] OTHER -> FALSE

RECURSIVE lstrip(_)
lstrip(s) == IF s # <<>> /\ Head(s) \in Whitespace THEN lstrip(Tail(s)) ELSE s

RECURSIVE rstrip(_)
rstrip(s) ==
    IF s # <<>> /\ s[Len(s)] \in Whitespace THEN rstrip(SubSeq(s, 1, Len(s) - 1)) ELSE s

\* str.strip()
strip(s) == rstrip(lstrip(s))

\* Python's `sub in s` on strings
Contains(s, sub) ==
    \E i \in 1..(Len(s) - Len(sub) + 1) : SubSeq(s, i, i + Len(sub) - 1) = sub

\* values the host may bind to a query attribute
QueryValues ==
    {NoneValue, IntValue(0), IntValue(5), StrValue(<<>>), StrValue(<<" ">>),
     StrValue(<<" ", "\n">>), StrValue(<<"\t">>), StrValue(<<"q">>),
     StrValue(<<" ", "q", "\n">>)}

(***************************** documents ***********************************)
DocIds == {"d1", "d2"}
Document(id) == [class |-> "Document", id |-> id]
Data(id) == [class |-> "Data", id |-> id]

\* Data.to_lc_document()
to_lc_document(d) == Document(d.id)

\* a list-valued handle input: None or a list of Data / Document items
NoneList == [isNone |-> TRUE, items |-> <<>>]
ListOf(items) == [isNone |-> FALSE, items |-> items]
InputLists ==
    {NoneList, ListOf(<<>>), ListOf(<<Data("d1")>>), ListOf(<<Document("d2"), Data("d1")>>)}

\* `x or []`
OrEmpty(l) == IF l.isNone \/ l.items = <<>> THEN <<>> ELSE l.items

\* hit lists the store's similarity_search may return
HitLists == {<<>>, <<Document("d1")>>, <<Document("d1"), Document("d2")>>,
             <<Document("d2"), Document("d1")>>}

(****************************** errors *************************************)
Err(type, key, text) == [type |-> type, key |-> key, text |-> text, cause |-> <<>>]

ContentKey == <<"c", "o", "n", "t", "e", "n", "t">>
KeyErrorContent == Err("KeyError", ContentKey, "")
KeyErrorContentId == Err("KeyError", ContentKey \o <<"_", "i", "d">>, "")
KeyErrorRowId == Err("KeyError", <<"r", "o", "w", "_", "i", "d">>, "")
ValueErrorContent == Err("ValueError", <<>>, "content is missing")
ConnectionError == Err("ConnectionError", <<>>, "connection refused")

\* errors (all instances of Exception) the wrapped libraries may raise
ConstructErrors == {ConnectionError, ValueErrorContent}
SearchErrors ==
    {KeyErrorContent, KeyErrorContentId, KeyErrorRowId, ValueErrorContent, ConnectionError}

\* an outcome of an underlying call: <<>> when it succeeds, <<e>> when it raises e
Ok == <<>>
Raises(e) == <<e>>

\* str(e) of a KeyError is the repr of its key
KeyErrorStr(e) == <<"'">> \o e.key \o <<"'">>

(*********************** the environment's behaviour ************************)
Outcomes(errors) == {Ok} \cup {Raises(e) : e \in errors}

\* what the store's similarity_search does when called: returns hits or raises
Returns(hits) == [raised |-> Ok, hits |-> hits]
Fails(e) == [raised |-> Raises(e), hits |-> <<>>]
SimBehaviours == {Returns(h) : h \in HitLists} \cup {Fails(e) : e \in SearchErrors}

ConversionError == Err("TypeError", <<>>, "not a document")

\* A script of the wrapped libraries for one invocation: the outcome of the
\* cassio import, of cassio.init, of the store / client constructor, of
\* similarity_search and of the record conversion.  Scripts list the calls in
\* the order the source makes them, and what follows the first failure is
\* left at its default, so that no two scripts differ only in a call that
\* is never made.
FirstFailureOnly(e) ==
    /\ ~e.importOk => e.init = Ok
    /\ (~e.importOk \/ e.init # Ok) => e.ctor = Ok
    /\ (~e.importOk \/ e.init # Ok \/ e.ctor # Ok) => e.sim = Returns(<<>>)
    /\ (~e.importOk \/ e.init # Ok \/ e.ctor # Ok \/ e.sim.raised # Ok) => e.conv = Ok

SearchEnvs ==
    {e \in [importOk : BOOLEAN, init : Outcomes(ConstructErrors),
            ctor : Outcomes(ConstructErrors), sim : SimBehaviours,
            conv : Outcomes({ConversionError})] : FirstFailureOnly(e)}

\* during a builder invocation no search and no conversion are scripted
BuildEnvs == {e \in SearchEnvs : e.sim = Returns(<<>>) /\ e.conv = Ok}

\* the default of the number_of_results input
DefaultNumberOfResults == 4

(************************** underlying calls *******************************)
NoMode == ""
CallRec(name, docs, query, k, mode, raised, hits) ==
    [call |-> name, docs |-> docs, query |-> query, k |-> k, mode |-> mode,
     raised |-> raised, hits |-> hits]

PlainCall(name, raised) == CallRec(name, <<>>, NoneValue, 0, NoMode, raised, <<>>)

BulkLoadCalls == {"Cassandra.from_documents", "ElasticVectorSearch.from_documents"}
StoreCalls == {"Cassandra", "ElasticVectorSearch"}

Count(cs, names) == Cardinality({i \in 1..Len(cs) : cs[i].call \in names})

\* what a builder gives its caller
Built(cs, handle) == [calls |-> cs, raised |-> Ok, handle |-> handle]
BuildRaised(cs, e) == [calls |-> cs, raised |-> Raises(e), handle |-> ""]

\* what an output method gives the host
Returned(value, handle) == [kind |-> "return", value |-> value, handle |-> handle, err |-> Ok]
Raised(e) == [kind |-> "raise", value |-> <<>>, handle |-> "", err |-> Raises(e)]
NoResult == [kind |-> "none", value |-> <<>>, handle |-> "", err |-> Ok]

\* the status attribute: unset until a method assigns it
NoStatus == [set |-> FALSE, data |-> <<>>]
StatusOf(data) == [set |-> TRUE, data |-> data]

\* langflow.helpers.data.docs_to_data: one record per document, in order
docs_to_data(docs) == [i \in 1..Len(docs) |-> Data(docs[i].id)]

(*************************** Cassandra adapter *****************************)
\* (the message's backquotes around the pip command are left out)
CassioImportError ==
    Err("ImportError", <<>>,
        "Could not import cassio integration package. Please install it with pip install cassio.")

GuidanceError ==
    Err("ValueError", <<>>,
        "You should ingest data through Langflow (or LangChain) to query it in Langflow. Your collection does not contain a field name 'content'.")

\* the documents list built from vector_store_inputs
CassandraDocuments(c) ==
    LET items == OrEmpty(c.vector_store_inputs)
    IN  [i \in 1..Len(items) |->
            IF items[i].class = "Data" THEN to_lc_document(items[i]) ELSE items[i]]

\* mutant: the add_to_vector_store flag is not consulted
CassandraBulkLoads_IgnoreFlag(c) == CassandraDocuments(c) # <<>>

\* whether the builder takes the Cassandra.from_documents branch
CassandraBulkLoads(c) == c.add_to_vector_store /\ CassandraDocuments(c) # <<>>

\* the constructor call the builder makes once cassio is initialised
CassandraConstruct(c, raised) ==
    IF CassandraBulkLoads(c)
    THEN CallRec("Cassandra.from_documents", CassandraDocuments(c), NoneValue, 0, NoMode,
                 raised, <<>>)
    ELSE CallRec("Cassandra", <<>>, NoneValue, 0, c.setup_mode, raised, <<>>)

_build_cassandra(c, env) ==
    IF ~env.importOk
    THEN BuildRaised(<<PlainCall("import cassio", Raises(CassioImportError))>>,
                     CassioImportError)
    ELSE IF env.init # Ok
    THEN BuildRaised(<<PlainCall("import cassio", Ok), PlainCall("cassio.init", env.init)>>,
                     env.init[1])
    ELSE LET cs == <<PlainCall("import cassio", Ok), PlainCall("cassio.init", Ok),
                     CassandraConstruct(c, env.ctor)>>
         IN  IF env.ctor # Ok THEN BuildRaised(cs, env.ctor[1])
             ELSE Built(cs, cs[3].call)

Cassandra_build_vector_store(c, env) == _build_cassandra(c, env)

\* mutant: the store built by an earlier output is reused
Cassandra_build_base_retriever_Memoized(c, env) ==
    IF nCalls > 0 THEN Built(<<>>, "Cassandra") ELSE _build_cassandra(c, env)

Cassandra_build_base_retriever(c, env) == _build_cassandra(c, env)

\* mutant: the query is not stripped before it is tested
SearchGuard_NoStrip(q) == Truthy(q) /\ q.type = "str"

\* the condition under which search_documents runs the similarity search
\* (the same expression in both vector-store adapters)
SearchGuard(q) == Truthy(q) /\ q.type = "str" /\ Truthy(StrValue(strip(q.s)))

\* the except clause of search_documents: which errors it replaces
IsMissingContent(e) == e.type = "KeyError" /\ Contains(KeyErrorStr(e), ContentKey)

\* mutant: the result count is hard-coded to the input's default
CassandraSimilarityCall_DefaultK(c, sim) ==
    CallRec("similarity_search", <<>>, c.search_input, DefaultNumberOfResults, NoMode,
            sim.raised, sim.hits)

CassandraSimilarityCall(c, sim) ==
    CallRec("similarity_search", <<>>, c.search_input, c.number_of_results, NoMode,
            sim.raised, sim.hits)

ConversionCall(docs, raised) ==
    CallRec("docs_to_data", docs, NoneValue, 0, NoMode, raised, <<>>)

\* the branch of search_documents taken for a query that passes the guard
CassandraSearch(c, st, env, cs) ==
    LET cs2 == Append(cs, CassandraSimilarityCall(c, env.sim))
        cs3 == Append(cs2, ConversionCall(env.sim.hits, env.conv))
    IN  IF env.sim.raised # Ok
        THEN [calls |-> cs2, status |-> st,
              result |-> IF IsMissingContent(env.sim.raised[1])
                         THEN Raised(GuidanceError)
                         ELSE Raised(env.sim.raised[1])]
        ELSE IF env.conv # Ok
        THEN [calls |-> cs3, status |-> st, result |-> Raised(env.conv[1])]
        ELSE LET data == docs_to_data(env.sim.hits)
             IN  [calls |-> cs3, status |-> StatusOf(data), result |-> Returned(data, "")]

\* mutant: the query is examined before the store is built
Cassandra_search_documents_QueryFirst(c, st, env) ==
    IF ~SearchGuard(c.search_input)
    THEN [calls |-> <<>>, status |-> st, result |-> Returned(<<>>, "")]
    ELSE LET b == _build_cassandra(c, env)
         IN  IF b.raised # Ok
             THEN [calls |-> b.calls, status |-> st, result |-> Raised(b.raised[1])]
             ELSE CassandraSearch(c, st, env, b.calls)

\* mutant: the empty result is stored in status too
Cassandra_search_documents_StatusOnEmpty(c, st, env) ==
    LET b == _build_cassandra(c, env)
    IN  IF b.raised # Ok
        THEN [calls |-> b.calls, status |-> st, result |-> Raised(b.raised[1])]
        ELSE IF SearchGuard(c.search_input)
        THEN CassandraSearch(c, st, env, b.calls)
        ELSE [calls |-> b.calls, status |-> StatusOf(<<>>), result |-> Returned(<<>>, "")]

Cassandra_search_documents(c, st, env) ==
    LET b == _build_cassandra(c, env)
    IN  IF b.raised # Ok
        THEN [calls |-> b.calls, status |-> st, result |-> Raised(b.raised[1])]
        ELSE IF SearchGuard(c.search_input)
        THEN CassandraSearch(c, st, env, b.calls)
        ELSE [calls |-> b.calls, status |-> st, result |-> Returned(<<>>, "")]

(************************* Elasticsearch adapter ***************************)
ElasticsearchDocuments(c) ==
    LET items == OrEmpty(c.ingest_data)
    IN  [i \in 1..Len(items) |->
            IF items[i].class = "Data" THEN to_lc_document(items[i]) ELSE items[i]]

_build_elasticsearch(c, env) ==
    LET docs == ElasticsearchDocuments(c)
        cs == IF docs # <<>>
              THEN <<CallRec("ElasticVectorSearch.from_documents", docs, NoneValue, 0, NoMode,
                             env.ctor, <<>>)>>
              ELSE <<CallRec("ElasticVectorSearch", <<>>, NoneValue, 0, NoMode, env.ctor,
                             <<>>)>>
    IN  IF env.ctor # Ok THEN BuildRaised(cs, env.ctor[1]) ELSE Built(cs, cs[1].call)

Elasticsearch_build_vector_store(c, env) == _build_elasticsearch(c, env)

ElasticsearchSimilarityCall(c, sim) ==
    CallRec("similarity_search", <<>>, c.search_query, c.number_of_results, NoMode,
            sim.raised, sim.hits)

\* the branch of search_documents taken for a query that passes the guard
ElasticsearchSearch(c, st, env, cs) ==
    LET cs2 == Append(cs, ElasticsearchSimilarityCall(c, env.sim))
        cs3 == Append(cs2, ConversionCall(env.sim.hits, env.conv))
    IN  IF env.sim.raised # Ok
        THEN [calls |-> cs2, status |-> st, result |-> Raised(env.sim.raised[1])]
        ELSE IF env.conv # Ok
        THEN [calls |-> cs3, status |-> st, result |-> Raised(env.conv[1])]
        ELSE LET data == docs_to_data(env.sim.hits)
             IN  [calls |-> cs3, status |-> StatusOf(data), result |-> Returned(data, "")]

\* mutant: any truthy query is searched, stripped or not
Elasticsearch_search_documents_Truthy(c, st, env) ==
    LET b == _build_elasticsearch(c, env)
    IN  IF b.raised # Ok
        THEN [calls |-> b.calls, status |-> st, result |-> Raised(b.raised[1])]
        ELSE IF Truthy(c.search_query)
        THEN ElasticsearchSearch(c, st, env, b.calls)
        ELSE [calls |-> b.calls, status |-> st, result |-> Returned(<<>>, "")]

Elasticsearch_search_documents(c, st, env) ==
    LET b == _build_elasticsearch(c, env)
    IN  IF b.raised # Ok
        THEN [calls |-> b.calls, status |-> st, result |-> Raised(b.raised[1])]
        ELSE IF SearchGuard(c.search_query)
        THEN ElasticsearchSearch(c, st, env, b.calls)
        ELSE [calls |-> b.calls, status |-> st, result |-> Returned(<<>>, "")]

(**************************** Infinity adapter *****************************)
InfinityConnectError(e) ==
    [type |-> "ValueError", key |-> <<>>, text |-> "Could not connect to Infinity API.",
     cause |-> <<e>>]

\* mutant: only connection errors are caught and wrapped
build_embeddings_ConnectionOnly(c, env) ==
    LET cs == <<PlainCall("InfinityEmbeddings", env.ctor)>>
    IN  IF env.ctor # Ok
        THEN IF env.ctor[1].type = "ConnectionError"
             THEN BuildRaised(cs, InfinityConnectError(env.ctor[1]))
             ELSE BuildRaised(cs, env.ctor[1])
        ELSE Built(cs, "InfinityEmbeddings")

\* mutant: a failed construction is tried a second time
build_embeddings_Retry(c, env) ==
    LET first == PlainCall("InfinityEmbeddings", env.ctor)
    IN  IF env.ctor # Ok
        THEN BuildRaised(<<first, first>>, InfinityConnectError(env.ctor[1]))
        ELSE Built(<<first>>, "InfinityEmbeddings")

\* `except Exception`: every error the client constructor raises is an Exception
build_embeddings(c, env) ==
    LET cs == <<PlainCall("InfinityEmbeddings", env.ctor)>>
    IN  IF env.ctor # Ok
        THEN BuildRaised(cs, InfinityConnectError(env.ctor[1]))
        ELSE Built(cs, "InfinityEmbeddings")

(****************************** instances **********************************)
NumbersOfResults == {1, DefaultNumberOfResults}
SetupModes == {"Sync", "Off"}

CassandraInstances ==
    [component : {"Cassandra"}, add_to_vector_store : BOOLEAN,
     vector_store_inputs : InputLists, search_input : QueryValues,
     number_of_results : NumbersOfResults, setup_mode : SetupModes]

ElasticsearchInstances ==
    [component : {"Elasticsearch"}, ingest_data : InputLists, search_query : QueryValues,
     number_of_results : NumbersOfResults]

InfinityInstances ==
    [component : {"Infinity"}, model : {"lier007/xiaobu-embedding-v2"},
     base_url : {"http://infinity.192.168.107.2.nip.io/", "http://localhost:7997"}]

Init ==
    /\ \/ self \in CassandraInstances
       \/ self \in ElasticsearchInstances
       \/ self \in InfinityInstances
    /\ status = NoStatus
    /\ method = ""
    /\ calls = <<>>
    /\ result = NoResult
    /\ nCalls = 0
    /\ initCount = 0
    /\ ingestCount = 0
    /\ initFailures = 0

(******************************* actions ***********************************)
\* what a builder method gives the host
BuildResult(b) == IF b.raised # Ok THEN Raised(b.raised[1]) ELSE Returned(<<>>, b.handle)

ConstructorCalls == BulkLoadCalls \cup StoreCalls \cup {"InfinityEmbeddings"}
InitCalls == {"import cassio", "cassio.init"}

\* the cassio import or cassio.init raised among the calls cs
InitFailed(cs) == \E i \in 1..Len(cs) : cs[i].call \in InitCalls /\ cs[i].raised # Ok

\* the host has invoked output method m: it made the calls cs, gave res and left status st
Invoked(m, cs, res, st) ==
    /\ nCalls < MaxCalls
    /\ method' = m
    /\ calls' = cs
    /\ result' = res
    /\ status' = st
    /\ nCalls' = nCalls + 1
    /\ initCount' = initCount + Count(cs, {"cassio.init"})
    /\ ingestCount' = ingestCount + Count(cs, BulkLoadCalls)
    /\ initFailures' = initFailures + (IF InitFailed(cs) THEN 1 ELSE 0)
    /\ self' = self

CassandraBuildVectorStore ==
    /\ self.component = "Cassandra"
    /\ \E env \in BuildEnvs :
          LET b == Cassandra_build_vector_store(self, env)
          IN  Invoked("build_vector_store", b.calls, BuildResult(b), status)

CassandraBuildBaseRetriever ==
    /\ self.component = "Cassandra"
    /\ \E env \in BuildEnvs :
          LET b == Cassandra_build_base_retriever(self, env)
          IN  Invoked("build_base_retriever", b.calls, BuildResult(b), status)

CassandraSearchDocuments ==
    /\ self.component = "Cassandra"
    /\ \E env \in SearchEnvs :
          LET r == Cassandra_search_documents(self, status, env)
          IN  Invoked("search_documents", r.calls, r.result, r.status)

ElasticsearchBuildVectorStore ==
    /\ self.component = "Elasticsearch"
    /\ \E env \in BuildEnvs :
          LET b == Elasticsearch_build_vector_store(self, env)
          IN  Invoked("build_vector_store", b.calls, BuildResult(b), status)

ElasticsearchSearchDocuments ==
    /\ self.component = "Elasticsearch"
    /\ \E env \in SearchEnvs :
          LET r == Elasticsearch_search_documents(self, status, env)
          IN  Invoked("search_documents", r.calls, r.result, r.status)

InfinityBuildEmbeddings ==
    /\ self.component = "Infinity"
    /\ \E env \in BuildEnvs :
          LET b == build_embeddings(self, env)
          IN  Invoked("build_embeddings", b.calls, BuildResult(b), status)

Next ==
    \/ CassandraBuildVectorStore
    \/ CassandraBuildBaseRetriever
    \/ CassandraSearchDocuments
    \/ ElasticsearchBuildVectorStore
    \/ ElasticsearchSearchDocuments
    \/ InfinityBuildEmbeddings

Spec == Init /\ [][Next]_vars

(******************************* properties ********************************)
IsVectorStore == self.component \in {"Cassandra", "Elasticsearch"}
IsSearch == IsVectorStore /\ method = "search_documents"

\* the query attribute of a vector-store component
QueryOf(c) == IF c.component = "Cassandra" THEN c.search_input ELSE c.search_query

\* the list-valued document input of a vector-store component
InputsOf(c) == IF c.component = "Cassandra" THEN c.vector_store_inputs ELSE c.ingest_data

\* a query that is None, not a string, empty or made of whitespace only
BlankQuery(q) == q.type # "str" \/ \A i \in 1..Len(q.s) : q.s[i] \in {" ", "\t", "\n"}

CallsTo(names) == {i \in 1..Len(calls) : calls[i].call \in names}
SimCalls == CallsTo({"similarity_search"})

\* the last invocation got past the cassio import and cassio.init
ReachedConstruction == ~InitFailed(calls)

\* the last invocation's store or client constructor was called and returned
Constructed == \E i \in CallsTo(ConstructorCalls) : calls[i].raised = Ok

\* documents were supplied: the list input is neither None nor empty
DocumentsSupplied == ~InputsOf(self).isNone /\ InputsOf(self).items # <<>>

\* the supplied items as the documents a bulk load is given, in order
AsDocuments(items) == [i \in 1..Len(items) |-> Document(items[i].id)]

\* C1: in both vector-store adapters a search_documents call whose query is
\* empty, whitespace-only, None or not a string never invokes
\* similarity_search, and once the store is constructed it returns the empty
\* list (a construction that raises surfaces its error instead, see C8).
C1_BlankQueryReturnsEmpty ==
    (IsSearch /\ BlankQuery(QueryOf(self))) =>
        /\ SimCalls = {}
        /\ Constructed => result = Returned(<<>>, "")
        /\ result.kind = "return" => result.value = <<>>

C1_Witness ==
    /\ IsSearch
    /\ QueryOf(self) = StrValue(<<" ", "\n">>)
    /\ result = Returned(<<>>, "")
    /\ SimCalls = {}

\* the error similarity_search raised during the last invocation, if any
SimRaised == {calls[i].raised[1] : i \in {j \in SimCalls : calls[j].raised # Ok}}

\* the library's "missing content field" error: a KeyError for the key content
MissingContentField(e) == e.type = "KeyError" /\ e.key = ContentKey

\* C2: in the Cassandra adapter's search_documents, a missing-content-field
\* error raised by similarity_search becomes the guidance ValueError, and every
\* other error it raises, whatever its kind, message or key, reaches the caller
\* unchanged.
C2_OnlyMissingContentTranslated ==
    (IsSearch /\ self.component = "Cassandra") =>
        \A e \in SimRaised :
            IF MissingContentField(e) THEN result = Raised(GuidanceError)
            ELSE result = Raised(e)

\* C3: build_embeddings raises exactly the "Could not connect to Infinity
\* API." ValueError, with the constructor's exception as its cause, whenever
\* the InfinityEmbeddings constructor raises; otherwise it returns the client
\* and raises nothing.
C3_ConstructionErrorsWrapped ==
    method = "build_embeddings" =>
        /\ Len(calls) >= 1 /\ calls[1].call = "InfinityEmbeddings"
        /\ IF calls[1].raised # Ok
           THEN /\ result.kind = "raise"
                /\ result.err[1].type = "ValueError"
                /\ result.err[1].text = "Could not connect to Infinity API."
                /\ result.err[1].cause = calls[1].raised
           ELSE result = Returned(<<>>, "InfinityEmbeddings")

C3_Witness ==
    /\ method = "build_embeddings"
    /\ result.kind = "raise"
    /\ result.err[1].cause = <<ValueErrorContent>>

\* C4: every invocation of the Cassandra builder (from any of the three output
\* methods) that gets as far as constructing the store calls
\* Cassandra.from_documents exactly when add_to_vector_store is true and
\* documents were supplied, and otherwise calls the plain Cassandra constructor
\* with the setup_mode flag and without documents; it never calls both.
C4_BulkLoadIffFlagAndDocuments ==
    (self.component = "Cassandra" /\ method # "") =>
        LET bulk == CallsTo({"Cassandra.from_documents"})
            plain == CallsTo({"Cassandra"})
        IN  /\ ReachedConstruction =>
                IF self.add_to_vector_store /\ DocumentsSupplied
                THEN Cardinality(bulk) = 1 /\ plain = {}
                ELSE Cardinality(plain) = 1 /\ bulk = {}
            /\ ~ReachedConstruction => bulk = {} /\ plain = {}
            /\ \A i \in bulk : calls[i].docs = AsDocuments(self.vector_store_inputs.items)
            /\ \A i \in plain : calls[i].mode = self.setup_mode /\ calls[i].docs = <<>>

C4_Witness ==
    /\ self.component = "Cassandra"
    /\ method = "build_base_retriever"
    /\ CallsTo({"Cassandra.from_documents"}) # {}
    /\ result.kind = "return"

\* C5: in both vector-store adapters a search_documents call with a query
\* that is not blank, whose underlying calls all succeed, invokes
\* similarity_search exactly once with the query and k = number_of_results,
\* and returns the conversion of the hits: as many records as hits, in the
\* hits' order.
C5_SearchReturnsConvertedHits ==
    (IsSearch /\ ~BlankQuery(QueryOf(self)) /\ result.kind = "return") =>
        /\ Cardinality(SimCalls) = 1
        /\ \A i \in SimCalls :
              /\ calls[i].k = self.number_of_results
              /\ calls[i].query = QueryOf(self)
              /\ result.value = docs_to_data(calls[i].hits)
              /\ Len(result.value) = Len(calls[i].hits)
              /\ \A j \in 1..Len(calls[i].hits) : result.value[j].id = calls[i].hits[j].id

C5_Witness ==
    /\ IsSearch
    /\ self.number_of_results = 1
    /\ result.kind = "return"
    /\ result.value = <<Data("d2"), Data("d1")>>

\* what the wrapped libraries did during the last search, read off the calls,
\* for a store whose construction succeeds
LastSearchEnv ==
    LET conv == CallsTo({"docs_to_data"})
    IN  [importOk |-> TRUE, init |-> Ok, ctor |-> Ok,
         sim |-> IF SimCalls = {} THEN Returns(<<>>)
                 ELSE LET i == CHOOSE j \in SimCalls : TRUE
                      IN  [raised |-> calls[i].raised, hits |-> calls[i].hits],
         conv |-> IF conv = {} THEN Ok ELSE calls[CHOOSE j \in conv : TRUE].raised]

\* the other adapter bound to the same query and result count
CassandraTwin(c) ==
    [component |-> "Cassandra", add_to_vector_store |-> TRUE,
     vector_store_inputs |-> c.ingest_data, search_input |-> c.search_query,
     number_of_results |-> c.number_of_results, setup_mode |-> "Sync"]

ElasticsearchTwin(c) ==
    [component |-> "Elasticsearch", ingest_data |-> c.vector_store_inputs,
     search_query |-> c.search_input, number_of_results |-> c.number_of_results]

\* the outcome the other adapter's search_documents gives for the same query
\* and the same behaviour of similarity_search and of the conversion
TwinResult ==
    IF self.component = "Cassandra"
    THEN Elasticsearch_search_documents(ElasticsearchTwin(self), status, LastSearchEnv).result
    ELSE Cassandra_search_documents(CassandraTwin(self), status, LastSearchEnv).result

\* the outcomes of the two adapters for the last search, by adapter
CassandraOutcome == IF self.component = "Cassandra" THEN result ELSE TwinResult
ElasticsearchOutcome == IF self.component = "Elasticsearch" THEN result ELSE TwinResult

\* C6 as stated: for every query and every behaviour of similarity_search the
\* two adapters' search_documents give the same outcome.
C6_SearchIdentical == (IsSearch /\ Constructed) => result = TwinResult

\* C6 amended: the two adapters' search_documents give the same outcome except
\* when similarity_search raises a KeyError whose string form contains
\* "content": then Cassandra raises the guidance ValueError and Elasticsearch
\* lets the KeyError through unchanged.
C6_SearchIdenticalExceptKeyError ==
    (IsSearch /\ Constructed) =>
        IF \E e \in SimRaised : e.type = "KeyError" /\ Contains(KeyErrorStr(e), ContentKey)
        THEN /\ CassandraOutcome = Raised(GuidanceError)
             /\ \A e \in SimRaised : ElasticsearchOutcome = Raised(e)
        ELSE CassandraOutcome = ElasticsearchOutcome

C6_Witness ==
    /\ IsSearch
    /\ self.component = "Elasticsearch"
    /\ SimRaised = {KeyErrorContent}
    /\ result = Raised(KeyErrorContent)
    /\ TwinResult = Raised(GuidanceError)

\* C7: on a Cassandra component with add_to_vector_store true and documents
\* supplied, after any n invocations of its output methods in which cassio
\* could be imported and initialised, cassio.init has run n times and
\* Cassandra.from_documents has run n times: nothing is memoized.
C7_EveryOutputRebuilds ==
    (self.component = "Cassandra" /\ self.add_to_vector_store /\ DocumentsSupplied
        /\ initFailures = 0) =>
        initCount = nCalls /\ ingestCount = nCalls

C7_Witness ==
    /\ self.component = "Cassandra"
    /\ self.add_to_vector_store /\ DocumentsSupplied
    /\ initFailures = 0
    /\ nCalls >= 2
    /\ ingestCount = nCalls
    /\ method = "build_base_retriever"

\* C8: within one invocation of any builder or search method no underlying
\* call is made twice, at most one constructor is called, and a call that
\* raises is the last call of the invocation, which then raises to the host;
\* in particular a failed construction inside search_documents is followed by
\* no similarity_search and no result list.
C8_NoRetryNoRecovery ==
    /\ \A i, j \in 1..Len(calls) : calls[i].call = calls[j].call => i = j
    /\ Cardinality(CallsTo(ConstructorCalls)) <= 1
    /\ \A i \in 1..Len(calls) :
          calls[i].raised # Ok => i = Len(calls) /\ result.kind = "raise"
    /\ (IsSearch /\ ReachedConstruction /\ ~Constructed) =>
          SimCalls = {} /\ result.kind = "raise"

C8_Witness ==
    /\ IsSearch
    /\ ~BlankQuery(QueryOf(self))
    /\ \E i \in CallsTo(ConstructorCalls) : calls[i].raised # Ok
    /\ result.kind = "raise"

\* C9: in both vector-store adapters search_documents builds the store before
\* it looks at the query: a call with a blank query that gets past the cassio
\* initialisation still calls exactly one constructor, the bulk-loading one
\* whenever documents were supplied (and, for Cassandra, add_to_vector_store is
\* true), and the empty list is returned only after that call has returned.
C9_BlankQueryStillBuilds ==
    (IsSearch /\ BlankQuery(QueryOf(self)) /\ ReachedConstruction) =>
        LET wantsBulk ==
                DocumentsSupplied
                    /\ (self.component = "Cassandra" => self.add_to_vector_store)
        IN  /\ Cardinality(CallsTo(ConstructorCalls)) = 1
            /\ wantsBulk =>
                  \E i \in CallsTo(BulkLoadCalls) :
                      calls[i].docs = AsDocuments(InputsOf(self).items)
            /\ ~wantsBulk => CallsTo(BulkLoadCalls) = {}
            /\ result.kind = "return" => Constructed

C9_Witness ==
    /\ IsSearch
    /\ self.component = "Elasticsearch"
    /\ QueryOf(self) = StrValue(<<>>)
    /\ \E i \in CallsTo(BulkLoadCalls) : Len(calls[i].docs) = 2
    /\ result = Returned(<<>>, "")

\* C10: no output method changes an input attribute, and status changes only
\* in a search_documents call with a non-blank query that returns, where it
\* becomes the returned record list; builders, blank-query searches and
\* searches that raise leave status as it was.
C10_OnlySuccessfulSearchWritesStatus ==
    [][/\ self' = self
       /\ LET wrote == /\ method' = "search_documents"
                       /\ self.component \in {"Cassandra", "Elasticsearch"}
                       /\ ~BlankQuery(QueryOf(self))
                       /\ result'.kind = "return"
          IN  /\ wrote => status' = StatusOf(result'.value)
              /\ ~wrote => status' = status]_vars

C10_Witness ==
    /\ IsSearch
    /\ status = StatusOf(result.value)
    /\ Len(result.value) = 2
    /\ nCalls = 2

====
